---------------------------- MODULE Spec2Model ----------------------------
(***************************************************************************)
(* LoRaWAN payload codecs of the device catalog: the sample driver         *)
(* (decodeUplink, encodeDownlink, decodeDownlink), the Electrex driver     *)
(* that dispatches on raw[0] (src/unnamed/part_000) and the Electrex       *)
(* driver that dispatches on rawHEX[0] (src/unnamed/part_001).             *)
(*                                                                         *)
(* The three files are plain CommonJS scripts without "use strict": a      *)
(* loop counter assigned without a declaration (i, j) is a property of the *)
(* global object and outlives the call.  The state of the model is that    *)
(* global object and the last call made by the host.                       *)
(*                                                                         *)
(* JavaScript values: a byte buffer is a sequence of 0..255 read at        *)
(* 0-based offsets, an object is a function from its property names, a     *)
(* string is a TLA+ string, a number an integer.  NaN stands for the       *)
(* result of arithmetic on a read past the end of a buffer.                *)
(***************************************************************************)
EXTENDS Integers, Sequences, FiniteSets, TLC

VARIABLES globals, last

vars == <<globals, last>>

-----------------------------------------------------------------------------
(* Bounds of the explored inputs.                                          *)

\* longest payload enumerated byte by byte over ByteSamples
MaxShort == 2
\* longest payload made of a leading byte and a run of one field tag
MaxRun == 6
\* payloads are explored up to this many bytes over the length limits
MaxOver == 1
\* longest tag stream, in fields
MaxFields == 2

-----------------------------------------------------------------------------
(* Program constants.                                                      *)

MaxUplinkLen == 30
MaxDownlinkLen == 4
DownlinkPort == 16
StatusTag == 17
DataTag == 1
StatusMinLen == 13
DataMinLen == 14
HexStatusMinLen == 28
PctMax == 255
GasMeter == 10
WaterMeter == 11
EnergyMeter == 12
ImportedEnergy == 247
EncodeCapacity == 4

\* arithmetic on an undefined element (a read past the end) gives NaN
NaN == 0 - 1

-----------------------------------------------------------------------------
(* JavaScript objects and strings.                                         *)

EmptyObj == [f \in {} |-> 0]

Put(o, k, v) == [f \in (DOMAIN o) \cup {k} |-> IF f = k THEN v ELSE o[f]]

Delete(o, k) == [f \in (DOMAIN o) \ {k} |-> o[f]]

Has(o, k) == k \in DOMAIN o

\* Number.prototype.toString(16), for a byte
HexDigit(d) ==
    CASE d < 10 -> ToString(d)
      [] d = 10 -> "a" [] d = 11 -> "b" [] d = 12 -> "c"
      [] d = 13 -> "d" [] d = 14 -> "e" [] OTHER -> "f"

HexStr(n) == IF n < 16 THEN HexDigit(n) ELSE HexDigit(n \div 16) \o HexDigit(n % 16)

\* the UTF-8 codes of the decimal rendering of a byte
DecCodes(n) ==
    IF n < 10 THEN <<48 + n>>
    ELSE IF n < 100 THEN <<48 + (n \div 10), 48 + (n % 10)>>
    ELSE <<48 + (n \div 100), 48 + ((n \div 10) % 10), 48 + (n % 10)>>

\* Buffer.from(input.bytes.toString(16)): Array.prototype.toString takes no
\* radix, so the text is the decimal elements joined by commas (code 44)
RECURSIVE rawHEXOf(_)
rawHEXOf(bytes) ==
    IF bytes = <<>> THEN <<>>
    ELSE IF Len(bytes) = 1 THEN DecCodes(bytes[1])
    ELSE DecCodes(bytes[1]) \o <<44>> \o rawHEXOf(Tail(bytes))

\* buf[k] inside a template literal or a string concatenation
Tpl(buf, k) == IF k < Len(buf) THEN ToString(buf[k + 1]) ELSE "undefined"

\* buf[k]*256 + buf[k+1]
U16(buf, k) == IF k + 1 < Len(buf) THEN buf[k + 1] * 256 + buf[k + 2] ELSE NaN

\* buf[k]*256**3 + buf[k+1]*256**2 + buf[k+2]*256 + buf[k+3]
\* (the explored payloads keep buf[k] below 128: TLC's integers are
\* 32-bit, JavaScript's numbers hold every such sum exactly)
U32(buf, k) ==
    IF k + 3 < Len(buf)
    THEN buf[k + 1] * 16777216 + buf[k + 2] * 65536 + buf[k + 3] * 256 + buf[k + 4]
    ELSE NaN

\* buf[k] stored as a number
U8(buf, k) == IF k < Len(buf) THEN buf[k + 1] ELSE NaN

\* Buffer.readInt8 / readInt16BE on offsets that are in range
Int8(buf, k) == IF buf[k + 1] >= 128 THEN buf[k + 1] - 256 ELSE buf[k + 1]

Int16BE(buf, k) ==
    LET u == buf[k + 1] * 256 + buf[k + 2]
    IN  IF u >= 32768 THEN u - 65536 ELSE u

\* x/100, kept exact
Div100(x) == [hundredths |-> x]

-----------------------------------------------------------------------------
(* Results and what a call leaves behind.                                  *)

NewResult == [data |-> EmptyObj, errors |-> <<>>, warnings |-> <<>>]

SetData(result, k, v) == [result EXCEPT !.data = Put(@, k, v)]

PushError(result, msg) == [result EXCEPT !.errors = Append(@, msg)]

\* Fail without its "delete result.data"
FailKeepData(result, msg) == PushError(result, msg)

\* result.errors.push(msg); delete result.data; return result
Fail(result, msg) == Delete(PushError(result, msg), "data")

Return(result, g) == [out |-> result, g |-> g]

Throw(name, g) == [out |-> [threw |-> name], g |-> g]

-----------------------------------------------------------------------------
(* Sample driver: decodeUplink.                                            *)

\* if (raw[0] = 17): an assignment.  The store changes element 0 when the
\* buffer has one (a store past the end of a Buffer is dropped) and the
\* value of the expression is 17, which is truthy.
DiscriminatorTest(raw) ==
    [raw   |-> IF Len(raw) > 0 THEN [raw EXCEPT ![1] = StatusTag] ELSE raw,
     taken |-> StatusTag # 0]

\* case 0x04: for (j = i; j < raw.byteLength; j++) name = `${name}${rawHEX[j]}`
RECURSIVE NameLoop(_, _, _, _)
NameLoop(hex, n, name, j) ==
    IF j < n THEN NameLoop(hex, n, name \o Tpl(hex, j), j + 1)
    ELSE [name |-> name, j |-> j]

\* the second loop: for (i = 0; i < raw.byteLength; i++) switch (raw[i])
RECURSIVE TagLoop(_, _, _)
TagLoop(raw, result, g) ==
    LET i == g.i
        n == Len(raw)
        next(r, step) == TagLoop(raw, r, Put(g, "i", i + step + 1))
    IN  IF ~(i < n) THEN Return(result, g)
        ELSE CASE raw[i + 1] = 0 ->
                    IF n < i + 3
                    THEN Return(Fail(result,
                           "Invalid uplink payload: index out of bounds when reading temperature"), g)
                    ELSE next(SetData(result, "temperature", Div100(Int16BE(raw, i + 1))), 2)
               [] raw[i + 1] = 1 ->
                    IF n < i + 3
                    THEN Return(Fail(result,
                           "Invalid uplink payload: index out of bounds when reading humidity"), g)
                    ELSE next(SetData(result, "humidity", Div100(Int16BE(raw, i + 1))), 2)
               [] raw[i + 1] = 2 ->
                    \* raw.readInt8(i+1) is not guarded: past the end it throws
                    IF ~(i + 1 < n) THEN Throw("RangeError", g)
                    ELSE next(SetData(result, "pulseCounter", Int8(raw, i + 1)), 1)
               [] OTHER ->
                    Return(Fail(result,
                      "Invalid uplink payload: unknown id '" \o Tpl(raw, i) \o "'"), g)

\* the first loop: for (i = 1; i < raw.byteLength; i++) switch (raw[i]);
\* when it runs to the end the second loop follows
RECURSIVE StatusLoop(_, _, _, _)
StatusLoop(raw, hex, result, g) ==
    LET i == g.i
        n == Len(raw)
        next(r, step) == StatusLoop(raw, hex, r, Put(g, "i", i + step + 1))
    IN  IF ~(i < n) THEN TagLoop(raw, result, Put(g, "i", 0))
        ELSE CASE raw[i + 1] = 0 ->
                    IF n < i + 4
                    THEN Return(Fail(result,
                           "Invalid uplink payload: index out of bounds when reading Device ID"), g)
                    ELSE next(SetData(result, "device_id",
                                Tpl(hex, i) \o Tpl(hex, i + 1) \o Tpl(hex, i + 2) \o Tpl(hex, i + 3)), 4)
               [] raw[i + 1] = 1 ->
                    IF n < i + 1
                    THEN Return(Fail(result,
                           "Invalid uplink payload: index out of bounds when reading Target Port"), g)
                    ELSE next(SetData(result, "port", Tpl(hex, i)), 1)
               [] raw[i + 1] = 2 ->
                    IF n < i + 4
                    THEN Return(Fail(result,
                           "Invalid uplink payload: index out of bounds when reading Device Date Time"), g)
                    ELSE next(SetData(result, "device_date_time", U32(raw, i)), 4)
               [] raw[i + 1] = 3 ->
                    IF n < i + 3
                    THEN Return(Fail(result,
                           "Invalid uplink payload: index out of bounds when reading Firmware Version"), g)
                    ELSE next(SetData(result, "firmware",
                                Tpl(hex, i) \o Tpl(hex, i + 1) \o Tpl(hex, i + 2)), 3)
               [] raw[i + 1] = 4 ->
                    LET old == IF Has(result.data, "name") THEN result.data.name ELSE "undefined"
                        l   == NameLoop(hex, n, old, i)
                    IN  Return(SetData(result, "name", l.name), Put(g, "j", l.j))
               [] OTHER ->
                    Return(Fail(result,
                      "Invalid uplink payload: unknown id '" \o Tpl(raw, i) \o "'"), g)

SampleDecodeUplink(bytes, g) ==
    LET hex == rawHEXOf(bytes)
        t   == DiscriminatorTest(bytes)
    IN  IF Len(bytes) > MaxUplinkLen
        THEN Return(Fail(NewResult, "Invalid uplink payload: length exceeds 30 bytes"), g)
        ELSE IF t.taken
             THEN StatusLoop(t.raw, hex, SetData(NewResult, "frame", "Status frame"),
                             Put(g, "i", 1))
             ELSE TagLoop(t.raw, NewResult, Put(g, "i", 0))

-----------------------------------------------------------------------------
(* Sample driver: encodeDownlink and decodeDownlink.                       *)

\* Buffer.writeUInt8(value, offset) on [raw, index]; index += 1.  A value
\* outside 0..255 or an offset outside the buffer throws a RangeError.
WriteOk(w, value) == value >= 0 /\ value <= 255 /\ w.index < Len(w.raw)

WriteUInt8(w, value) ==
    [raw |-> [w.raw EXCEPT ![w.index + 1] = value], index |-> w.index + 1]

\* EncodeAlarm returning Array.from(raw), without the slice(0, index)
EncodeAlarmPadded(result, data, w, g) ==
    LET w2 == IF Has(data, "alarm")
              THEN WriteUInt8(WriteUInt8(w, 1), IF data.alarm = TRUE THEN 1 ELSE 0)
              ELSE w
    IN  Return(Put(Put(result, "bytes", w2.raw), "fPort", DownlinkPort), g)

\* if (typeof input.data.alarm !== "undefined") ...; result.bytes = ...; result.fPort = 16
EncodeAlarm(result, data, w, g) ==
    LET w2 == IF Has(data, "alarm")
              THEN WriteUInt8(WriteUInt8(w, 1), IF data.alarm = TRUE THEN 1 ELSE 0)
              ELSE w
    IN  Return(Put(Put(result, "bytes", SubSeq(w2.raw, 1, w2.index)),
                   "fPort", DownlinkPort), g)

EncodeDownlink(data, g) ==
    LET result == [errors |-> <<>>, warnings |-> <<>>]
        w0     == [raw |-> [k \in 1..EncodeCapacity |-> 0], index |-> 0]
    IN  IF Has(data, "pulseCounterThreshold")
        THEN IF data.pulseCounterThreshold > PctMax
             THEN Return(Fail(result,
                    "Invalid downlink: pulseCounterThreshold cannot exceed 255"), g)
             ELSE LET w1 == WriteUInt8(w0, 0)
                  IN  IF ~WriteOk(w1, data.pulseCounterThreshold)
                      THEN Throw("RangeError", g)
                      ELSE EncodeAlarm(result, data,
                                       WriteUInt8(w1, data.pulseCounterThreshold), g)
        ELSE EncodeAlarm(result, data, w0, g)

\* DownlinkLoop reading the value at raw[i], the tag's offset, not raw[i+1]
RECURSIVE DownlinkLoopValueAtTag(_, _, _)
DownlinkLoopValueAtTag(raw, result, g) ==
    LET i == g.i
        n == Len(raw)
        next(r) == DownlinkLoopValueAtTag(raw, r, Put(g, "i", i + 2))
    IN  IF ~(i < n) THEN Return(result, g)
        ELSE CASE raw[i + 1] = 0 ->
                    IF n < i + 2
                    THEN Return(Fail(result,
                           "Invalid downlink payload: index out of bounds when reading pulseCounterThreshold"), g)
                    ELSE next(SetData(result, "pulseCounterThreshold", raw[i + 1]))
               [] raw[i + 1] = 1 ->
                    IF n < i + 2
                    THEN Return(Fail(result,
                           "Invalid downlink payload: index out of bounds when reading alarm"), g)
                    ELSE next(SetData(result, "alarm", raw[i + 1] = 1))
               [] OTHER ->
                    Return(Fail(result,
                      "Invalid downlink payload: unknown id '" \o Tpl(raw, i) \o "'"), g)

\* for (i = 0; i < raw.byteLength; i += 2) switch (raw[i])
RECURSIVE DownlinkLoop(_, _, _)
DownlinkLoop(raw, result, g) ==
    LET i == g.i
        n == Len(raw)
        next(r) == DownlinkLoop(raw, r, Put(g, "i", i + 2))
    IN  IF ~(i < n) THEN Return(result, g)
        ELSE CASE raw[i + 1] = 0 ->
                    IF n < i + 2
                    THEN Return(Fail(result,
                           "Invalid downlink payload: index out of bounds when reading pulseCounterThreshold"), g)
                    ELSE next(SetData(result, "pulseCounterThreshold", raw[i + 2]))
               [] raw[i + 1] = 1 ->
                    IF n < i + 2
                    THEN Return(Fail(result,
                           "Invalid downlink payload: index out of bounds when reading alarm"), g)
                    ELSE next(SetData(result, "alarm", raw[i + 2] = 1))
               [] OTHER ->
                    Return(Fail(result,
                      "Invalid downlink payload: unknown id '" \o Tpl(raw, i) \o "'"), g)

\* DecodeDownlink without the length guard
DecodeDownlinkUnguarded(bytes, g) == DownlinkLoop(bytes, NewResult, Put(g, "i", 0))

DecodeDownlink(bytes, g) ==
    IF Len(bytes) > MaxDownlinkLen
    THEN Return(Fail(NewResult, "Invalid downlink payload: length exceeds 4 bytes"), g)
    ELSE DownlinkLoop(bytes, NewResult, Put(g, "i", 0))

-----------------------------------------------------------------------------
(* Electrex driver dispatching on raw[0] (src/unnamed/part_000).           *)

\* name = raw[13].toString(16); for (j = 14; j < raw.byteLength; j++) name += raw[j].toString(16)
RECURSIVE HexNameLoop(_, _, _)
HexNameLoop(raw, name, j) ==
    IF j < Len(raw) THEN HexNameLoop(raw, name \o HexStr(raw[j + 1]), j + 1)
    ELSE [name |-> name, j |-> j]

\* the Data frame header, bytes 1..13, read by both Electrex drivers
DataHeader(raw, result) ==
    LET r1 == SetData(result, "tcp_ip",
                Tpl(raw, 1) \o "." \o Tpl(raw, 2) \o "." \o Tpl(raw, 3) \o "." \o Tpl(raw, 4))
        r2 == SetData(r1, "tcp_port", U16(raw, 5))
        r3 == SetData(r2, "slave_id", U8(raw, 7))
        r4 == SetData(r3, "modbus", U8(raw, 8))
        r5 == SetData(r4, "start_value", U16(raw, 9))
        r6 == SetData(r5, "registers_quiered", U16(raw, 11))
    IN  SetData(r6, "data_bytes", U8(raw, 13))

\* the counters of the four sub-types, read from offset 14 on
Counters(raw, sub, result) ==
    CASE sub = GasMeter ->
           SetData(result, "c1", U32(raw, 14))
      [] sub = WaterMeter ->
           SetData(SetData(result, "c1", U32(raw, 14)), "c2", U32(raw, 18))
      [] sub = EnergyMeter ->
           SetData(SetData(result, "ea", U32(raw, 14)), "er", U32(raw, 18))
      [] sub = ImportedEnergy ->
           SetData(SetData(SetData(SetData(result,
             "ea_imp", U32(raw, 14)), "er_ind_imp", U32(raw, 18)),
             "er_cap_imp", U32(raw, 22)), "es_imp", U32(raw, 26))

SubTypeName(sub) ==
    CASE sub = GasMeter -> "Data frame - GAS METER"
      [] sub = WaterMeter -> "Data frame - WATER METER"
      [] sub = EnergyMeter -> "Data frame - ENERGY METER"
      [] sub = ImportedEnergy -> "Data frame - IMPORTED ENERGY"

SubTypes == {GasMeter, WaterMeter, EnergyMeter, ImportedEnergy}

Part000Status(raw, result, g) ==
    IF Len(raw) < StatusMinLen
    THEN Return(Fail(result,
           "Invalid uplink payload: index out of bounds when reading status frame"), g)
    ELSE LET r1 == SetData(result, "device_id",
                     "00" \o HexStr(raw[2]) \o HexStr(raw[3]) \o HexStr(raw[4]) \o HexStr(raw[5]))
             r2 == SetData(r1, "port", raw[6])
             r3 == SetData(r2, "device_date_time", U32(raw, 6))
             r4 == SetData(r3, "firmware",
                     HexStr(raw[11]) \o "." \o HexStr(raw[12]) \o "." \o HexStr(raw[13]))
         IN  \* raw[13].toString(16): raw[13] is undefined in a 13-byte frame
             IF ~(13 < Len(raw)) THEN Throw("TypeError", g)
             ELSE LET l == HexNameLoop(raw, HexStr(raw[14]), 14)
                  IN  Return(SetData(r4, "name", l.name), Put(g, "j", l.j))

\* Part000Data with the sub-type switch on raw[8], the byte after the slave id
Part000DataSwitchOnModbus(raw, result, g) ==
    IF Len(raw) < DataMinLen
    THEN Return(Fail(result,
           "Invalid uplink payload: index out of bounds when reading data frame"), g)
    ELSE LET r == DataHeader(raw, result)
         IN  IF raw[9] \in SubTypes
             THEN Return(SetData(Counters(raw, raw[9], r), "frame_type", SubTypeName(raw[9])), g)
             ELSE Return(Fail(r, "Invalid uplink payload: unknown data frame type"), g)

Part000Data(raw, result, g) ==
    IF Len(raw) < DataMinLen
    THEN Return(Fail(result,
           "Invalid uplink payload: index out of bounds when reading data frame"), g)
    ELSE LET r == DataHeader(raw, result)
         IN  IF raw[8] \in SubTypes
             THEN Return(SetData(Counters(raw, raw[8], r), "frame_type", SubTypeName(raw[8])), g)
             ELSE Return(Fail(r, "Invalid uplink payload: unknown data frame type"), g)

Part000DecodeUplink(bytes, g) ==
    IF Len(bytes) > MaxUplinkLen
    THEN Return(Fail(NewResult, "Invalid uplink payload: length exceeds 30 bytes"), g)
    ELSE CASE Len(bytes) > 0 /\ bytes[1] = StatusTag ->
                Part000Status(bytes, SetData(NewResult, "frame_type", "Status frame"), g)
           [] Len(bytes) > 0 /\ bytes[1] = DataTag ->
                Part000Data(bytes, SetData(NewResult, "frame_type", "Data frame"), g)
           [] OTHER ->
                \* the only error path that keeps result.data (still {})
                Return(PushError(NewResult, "Invalid uplink payload: unknown frame type"), g)

-----------------------------------------------------------------------------
(* Electrex driver dispatching on rawHEX[0] (src/unnamed/part_001).        *)

Part001Status(raw, hex, result, g) ==
    IF Len(hex) < HexStatusMinLen
    THEN Return(Fail(result,
           "Invalid uplink payload: index out of bounds when reading Device ID"), g)
    ELSE LET r1 == SetData(result, "device_id",
                     Tpl(hex, 1) \o Tpl(hex, 2) \o Tpl(hex, 3) \o Tpl(hex, 4))
             r2 == SetData(r1, "port", Tpl(hex, 5))
             r3 == SetData(r2, "device_date_time", U32(raw, 6))
             r4 == SetData(r3, "firmware", Tpl(hex, 10) \o Tpl(hex, 11) \o Tpl(hex, 12))
             l  == NameLoop(hex, Len(hex), "undefined", 13)
         IN  Return(SetData(r4, "name", l.name), Put(g, "j", l.j))

Part001Data(raw, hex, result, g) ==
    IF Len(hex) < DataMinLen
    THEN Return(Fail(result,
           "Invalid uplink payload: index out of bounds when reading Fram parameters"), g)
    ELSE LET r == DataHeader(raw, result)
         IN  IF hex[8] \in SubTypes
             THEN Return(Counters(raw, hex[8], r), g)
             ELSE \* here i is the block's own "let i", 14 after the header
                  Return(Fail(r, "Invalid uplink payload: unknown id '" \o Tpl(raw, 14) \o "'"), g)

Part001DecodeUplink(bytes, g) ==
    LET hex == rawHEXOf(bytes)
    IN  IF Len(bytes) > MaxUplinkLen
        THEN Return(Fail(NewResult, "Invalid uplink payload: length exceeds 30 bytes"), g)
        ELSE CASE Len(hex) > 0 /\ hex[1] = StatusTag ->
                    Part001Status(bytes, hex, SetData(NewResult, "frame_type", "Status frame"), g)
               [] Len(hex) > 0 /\ hex[1] = DataTag ->
                    Part001Data(bytes, hex, SetData(NewResult, "frame_type", "Data frame"), g)
               [] OTHER ->
                    \* no "let i" is in scope here: i is the global one, and
                    \* reading it before any call has created it throws
                    IF ~Has(g, "i") THEN Throw("ReferenceError", g)
                    ELSE Return(Fail(NewResult,
                           "Invalid uplink payload: unknown id '" \o Tpl(bytes, g.i) \o "'"), g)

-----------------------------------------------------------------------------
(* The inputs the host passes.                                             *)

SeqsUpTo(S, n) == UNION {[1..k -> S] : k \in 0..n}

\* p followed by fill up to n bytes
Pad(p, fill, n) == p \o [k \in 1..(n - Len(p)) |-> fill]

\* a Status frame's tag and a byte that is no frame tag
LeadSamples == {StatusTag, 5}

\* the field tags of the sample driver's first loop, and an unknown one
FillSamples == {0, 1, 2, 3, 4, 9}

\* a leading byte and a run of one field tag
RunPayloads ==
    {Pad(<<t>>, f, n) : t \in LeadSamples, f \in FillSamples, n \in 1..MaxRun}

\* every field tag, both frame tags and a byte that is neither
ByteSamples == {0, 1, 2, 3, 4, 5, StatusTag}

\* every payload of up to MaxShort bytes over ByteSamples
ShortPayloads == SeqsUpTo(ByteSamples, MaxShort)

\* lengths around the minimum frame lengths and the payload limit
LongLens ==
    {StatusMinLen - 1, StatusMinLen, DataMinLen}
    \cup (MaxUplinkLen..(MaxUplinkLen + MaxOver))

LongPayloads == {Pad(<<t>>, 9, n) : t \in LeadSamples, n \in LongLens}

\* the number of 32-bit counters of a sub-type
CounterCount(s) ==
    CASE s = GasMeter -> 1 [] s = WaterMeter -> 2 [] s = EnergyMeter -> 2
      [] s = ImportedEnergy -> 4 [] OTHER -> 0

\* Data frames whose byte 7 is a sub-type, or is not, around the lengths
\* that hold the header and the counters
DataFrames ==
    {[Pad(<<DataTag>>, 0, n) EXCEPT ![8] = s] :
        s \in SubTypes \cup {5},
        n \in {DataMinLen + 4 * c - 1 : c \in 0..4} \cup {DataMinLen + 4 * c : c \in 0..4}
              \cup {MaxUplinkLen + MaxOver}}

\* the sample driver's tag-stream fields: temperature 25.00, humidity -2.00,
\* pulse counter 5
FieldSamples == {<<0, 9, 196>>, <<1, 255, 56>>, <<2, 5>>}

RECURSIVE Streams(_)
Streams(n) ==
    IF n = 0 THEN {<<>>}
    ELSE Streams(n - 1) \cup {s \o f : s \in Streams(n - 1), f \in FieldSamples}

TagStreams == Streams(MaxFields)

\* the gas-meter frame of the specification (slave id 5) and the same frame
\* with slave id 0x0a
GasScenario == <<1, 10, 0, 0, 1, 0, 80, 5, 3, 0, 0, 0, 1, 4, 0, 0, 0, 42>>

GasFrame == [GasScenario EXCEPT ![8] = GasMeter]

UplinkPayloads ==
    ShortPayloads \cup RunPayloads \cup LongPayloads \cup DataFrames \cup TagStreams
    \cup {GasScenario, GasFrame}

\* every payload within the limit over both tags and another byte, and
\* payloads over the limit
DownlinkPayloads ==
    SeqsUpTo({0, 1, 5}, MaxDownlinkLen)
    \cup {Pad(<<>>, f, n) : f \in {0, 5},
                            n \in (MaxDownlinkLen + 1)..(MaxDownlinkLen + MaxOver)}

PctSamples == {0 - 1, 0, 10, PctMax, PctMax + 1, 300}

\* every object with any of the two recognized fields
DownlinkObjects ==
    {EmptyObj}
    \cup {[pulseCounterThreshold |-> p] : p \in PctSamples}
    \cup {[alarm |-> a] : a \in BOOLEAN}
    \cup {[pulseCounterThreshold |-> p, alarm |-> a] : p \in PctSamples, a \in BOOLEAN}

-----------------------------------------------------------------------------
(* The host: one action per exported function.                             *)

Call(fn, input, f) ==
    /\ globals' = f.g
    /\ last' = [fn |-> fn, input |-> input, out |-> f.out]

\* a call whose input is what the previous call returned
Chain(fn, input, f) ==
    /\ globals' = f.g
    /\ last' = [fn |-> fn, input |-> input, out |-> f.out, from |-> last.input]

Returned(c) == Has(c, "out") /\ ~Has(c.out, "threw")

\* the host makes one call at a time and takes its result before the next
NoCall == [fn |-> "none"]

Idle == last = NoCall

TakeResult ==
    /\ ~Idle
    /\ last' = NoCall
    /\ UNCHANGED globals

SampleUplink ==
    \E b \in UplinkPayloads :
        Idle /\ Call("sample.decodeUplink", b, SampleDecodeUplink(b, globals))

Part000Uplink ==
    \E b \in UplinkPayloads :
        Idle /\ Call("part_000.decodeUplink", b, Part000DecodeUplink(b, globals))

Part001Uplink ==
    \E b \in UplinkPayloads :
        Idle /\ Call("part_001.decodeUplink", b, Part001DecodeUplink(b, globals))

Encode ==
    \E d \in DownlinkObjects :
        Idle /\ Call("encodeDownlink", d, EncodeDownlink(d, globals))

Decode ==
    \E b \in DownlinkPayloads :
        Idle /\ Call("decodeDownlink", b, DecodeDownlink(b, globals))

\* decodeDownlink on the bytes encodeDownlink has just returned
DecodeEncoded ==
    /\ last.fn = "encodeDownlink"
    /\ Returned(last)
    /\ Has(last.out, "bytes")
    /\ Chain("decodeDownlink", last.out.bytes, DecodeDownlink(last.out.bytes, globals))

\* encodeDownlink on the data decodeDownlink has just returned
EncodeDecoded ==
    /\ last.fn = "decodeDownlink"
    /\ Returned(last)
    /\ Has(last.out, "data")
    /\ Chain("encodeDownlink", last.out.data, EncodeDownlink(last.out.data, globals))

\* a fresh process: no implicit global exists, no call was made
NoGlobals == EmptyObj

Init ==
    /\ globals = NoGlobals
    /\ last = NoCall

Next ==
    \/ SampleUplink
    \/ Part000Uplink
    \/ Part001Uplink
    \/ Encode
    \/ Decode
    \/ DecodeEncoded
    \/ EncodeDecoded
    \/ TakeResult

Spec == Init /\ [][Next]_vars

-----------------------------------------------------------------------------
(* Vocabulary of the properties.                                           *)

UplinkFns == {"sample.decodeUplink", "part_000.decodeUplink", "part_001.decodeUplink"}

ElectrexFns == {"part_000.decodeUplink", "part_001.decodeUplink"}

\* the last call returned a result (it did not throw)
Ret == ~Idle /\ Returned(last)

\* the result carries no decoded field: data is absent or is {}
NoFieldData(r) == ~Has(r, "data") \/ r.data = EmptyObj

TooLongUplink == "Invalid uplink payload: length exceeds 30 bytes"

TooLongDownlink == "Invalid downlink payload: length exceeds 4 bytes"

\* what the call gives as the first call of a fresh process
FreshOutcome(fn, input) ==
    CASE fn = "sample.decodeUplink" -> SampleDecodeUplink(input, NoGlobals).out
      [] fn = "part_000.decodeUplink" -> Part000DecodeUplink(input, NoGlobals).out
      [] fn = "part_001.decodeUplink" -> Part001DecodeUplink(input, NoGlobals).out
      [] fn = "encodeDownlink" -> EncodeDownlink(input, NoGlobals).out
      [] fn = "decodeDownlink" -> DecodeDownlink(input, NoGlobals).out

-----------------------------------------------------------------------------
(* C1 - data and errors are mutually exclusive.                            *)

\* C1: in every result a call returns, a non-empty errors list comes with
\* no field data (data absent or {}) and no bytes or fPort, and an empty
\* errors list comes with the output present: data for the decoders,
\* bytes and fPort for encodeDownlink.
C1_DataErrorExclusive ==
    Ret =>
        LET r == last.out
        IN  /\ r.errors # <<>> =>
                 NoFieldData(r) /\ ~Has(r, "bytes") /\ ~Has(r, "fPort")
            /\ r.errors = <<>> =>
                 IF last.fn = "encodeDownlink"
                 THEN Has(r, "bytes") /\ Has(r, "fPort")
                 ELSE Has(r, "data")

\* an error result that went through "delete result.data" after fields had
\* been stored: part_000 on a truncated Status frame
C1_Witness ==
    /\ Ret
    /\ last.fn = "part_000.decodeUplink"
    /\ Len(last.input) > 0 /\ last.input[1] = StatusTag
    /\ last.out.errors # <<>>
    /\ ~Has(last.out, "data")

-----------------------------------------------------------------------------
(* C2 - no call throws.                                                    *)

\* C2: every call returns a structured result, an object with an errors
\* list and a warnings list; no call ends in an exception.
C2_NoThrow ==
    ~Idle => /\ Returned(last)
             /\ Has(last.out, "errors")
             /\ Has(last.out, "warnings")

-----------------------------------------------------------------------------
(* C3 - one error at most, and the length guards.                          *)

\* C3: a returned errors list has at most one entry and then no field data
\* and no bytes; a payload longer than the limit (30 bytes for every
\* decodeUplink, 4 for decodeDownlink) returns exactly the one
\* payload-too-long error and no data property.
C3_SingleError ==
    /\ Ret =>
         /\ Len(last.out.errors) <= 1
         /\ last.out.errors # <<>> => NoFieldData(last.out) /\ ~Has(last.out, "bytes")
    /\ (last.fn \in UplinkFns /\ Len(last.input) > 30) =>
         /\ Returned(last)
         /\ last.out.errors = <<TooLongUplink>>
         /\ ~Has(last.out, "data")
    /\ (last.fn = "decodeDownlink" /\ Len(last.input) > 4) =>
         /\ Returned(last)
         /\ last.out.errors = <<TooLongDownlink>>
         /\ ~Has(last.out, "data")

\* a decodeDownlink call on 5 bytes whose pairs are all well formed
C3_Witness ==
    /\ Ret
    /\ last.fn = "decodeDownlink"
    /\ last.input = <<0, 0, 0, 0, 0>>
    /\ last.out.errors = <<TooLongDownlink>>

-----------------------------------------------------------------------------
(* C4 - frame-type dispatch.                                               *)

DecodedAs(r, frame) ==
    /\ Has(r, "data")
    /\ \/ Has(r.data, "frame") /\ r.data.frame = frame
       \/ Has(r.data, "frame_type") /\ r.data.frame_type = frame

DecodedAsData(r) ==
    /\ Has(r, "data")
    /\ Has(r.data, "frame_type")
    /\ r.data.frame_type \in {"Data frame"} \cup {SubTypeName(s) : s \in SubTypes}

\* the frame tags a driver has: the sample driver has no Data frame
FrameTags(fn) == IF fn \in ElectrexFns THEN {StatusTag, DataTag} ELSE {StatusTag}

\* C4: for a payload of at most 30 bytes a decodeUplink that returns has
\* decoded a Status frame only if bytes[0] = 0x11 and a Data frame only if
\* bytes[0] = 0x01; a Status or Data frame long enough for every field is
\* decoded as such; the empty payload and every other leading byte give an
\* error and no field data.
C4_FailClosed ==
    (last.fn \in UplinkFns /\ Len(last.input) <= 30) =>
        LET b == last.input
            r == last.out
        IN  /\ (Returned(last) /\ DecodedAs(r, "Status frame")) =>
                 (b # <<>> /\ b[1] = StatusTag)
            /\ (Returned(last) /\ DecodedAsData(r)) =>
                 (b # <<>> /\ b[1] = DataTag)
            /\ (b = <<>> \/ b[1] \notin FrameTags(last.fn)) =>
                 (Returned(last) /\ r.errors # <<>> /\ NoFieldData(r))
            /\ (last.fn \in ElectrexFns /\ Len(b) = 30 /\ b[1] = StatusTag) =>
                 (Returned(last) /\ DecodedAs(r, "Status frame"))

-----------------------------------------------------------------------------
(* C5 - the gas-meter Data frame.                                          *)

GasData(slave) ==
    [frame_type |-> "Data frame - GAS METER", tcp_ip |-> "10.0.0.1", tcp_port |-> 80,
     slave_id |-> slave, modbus |-> 3, start_value |-> 0, registers_quiered |-> 1,
     data_bytes |-> 4, c1 |-> 42]

\* the fields the scenario names, whatever else the mapping holds
ScenarioFields(data, slave) ==
    /\ {"tcp_ip", "tcp_port", "slave_id", "modbus", "start_value",
        "registers_quiered", "data_bytes", "c1"} \subseteq DOMAIN data
    /\ data.tcp_ip = "10.0.0.1" /\ data.tcp_port = 80 /\ data.slave_id = slave
    /\ data.modbus = 3 /\ data.start_value = 0 /\ data.registers_quiered = 1
    /\ data.data_bytes = 4 /\ data.c1 = 42

\* C5 as written: an Electrex decodeUplink on the bytes of the scenario
\* (byte 7 is 5) returns no errors, the header fields of the scenario and,
\* by the gas-meter path, c1 = 42.
C5_Scenario ==
    (last.fn \in ElectrexFns /\ last.input = GasScenario) =>
        /\ Returned(last)
        /\ last.out.errors = <<>>
        /\ Has(last.out, "data")
        /\ ScenarioFields(last.out.data, 5)

\* C5 amended: the sub-type switch reads byte 7, the slave id.  The driver
\* of part_000 on the scenario's bytes with byte 7 = 0x0a returns no errors
\* and exactly the scenario's fields with slave_id = 10 and c1 = 42; on the
\* scenario's own bytes (slave id 5) it returns the one error "unknown data
\* frame type" and no data.
C5_GasFrame ==
    /\ (last.fn = "part_000.decodeUplink" /\ last.input = GasFrame) =>
         last.out = [data |-> GasData(GasMeter), errors |-> <<>>, warnings |-> <<>>]
    /\ (last.fn = "part_000.decodeUplink" /\ last.input = GasScenario) =>
         last.out = [errors |-> <<"Invalid uplink payload: unknown data frame type">>,
                     warnings |-> <<>>]

C5_Witness ==
    /\ Ret
    /\ last.fn = "part_000.decodeUplink"
    /\ last.input = GasFrame
    /\ Has(last.out, "data")
    /\ last.out.data.c1 = 42

-----------------------------------------------------------------------------
(* C6 - encodeDownlink against its reference.                              *)

\* the reference of the claim: the pairs of the present fields in tag
\* order, or the single out-of-range error
RefEncode(d) ==
    IF Has(d, "pulseCounterThreshold") /\ d.pulseCounterThreshold > 255
    THEN [errors |-> <<"Invalid downlink: pulseCounterThreshold cannot exceed 255">>,
          warnings |-> <<>>]
    ELSE [errors |-> <<>>, warnings |-> <<>>, fPort |-> 16,
          bytes |-> (IF Has(d, "pulseCounterThreshold")
                     THEN <<0, d.pulseCounterThreshold>> ELSE <<>>)
                    \o (IF Has(d, "alarm")
                        THEN <<1, IF d.alarm = TRUE THEN 1 ELSE 0>> ELSE <<>>)]

\* C6: for every input encodeDownlink returns the reference result.
C6_EncodeReference ==
    last.fn = "encodeDownlink" =>
        Returned(last) /\ last.out = RefEncode(last.input)

-----------------------------------------------------------------------------
(* C7 - encode, then decode.                                               *)

\* the inputs of the round trip: pulseCounterThreshold, when present, is a byte
InByteRange(d) ==
    Has(d, "pulseCounterThreshold") =>
        (d.pulseCounterThreshold >= 0 /\ d.pulseCounterThreshold <= 255)

\* C7: for every object d made of pulseCounterThreshold in 0..255 and a
\* boolean alarm, each present or not, encodeDownlink(d) returns bytes, and
\* decodeDownlink on those bytes returns no errors and data equal to d.
C7_EncodeDecode ==
    /\ (last.fn = "encodeDownlink" /\ ~Has(last, "from") /\ InByteRange(last.input)) =>
         (Returned(last) /\ Has(last.out, "bytes"))
    /\ (last.fn = "decodeDownlink" /\ Has(last, "from") /\ InByteRange(last.from)) =>
         /\ Returned(last)
         /\ last.out.errors = <<>>
         /\ Has(last.out, "data")
         /\ last.out.data = last.from

\* both fields present, with the largest threshold
C7_Witness ==
    /\ Ret
    /\ last.fn = "decodeDownlink"
    /\ Has(last, "from")
    /\ last.from = [pulseCounterThreshold |-> 255, alarm |-> TRUE]
    /\ last.input = <<0, 255, 1, 1>>
    /\ last.out.data = last.from

-----------------------------------------------------------------------------
(* C8 - decode, then encode.                                               *)

\* C8 as written: for every byte sequence decodeDownlink accepts,
\* encodeDownlink on the decoded data returns the same bytes.
C8_DecodeEncode ==
    (last.fn = "encodeDownlink" /\ Has(last, "from")) =>
        /\ Returned(last)
        /\ Has(last.out, "bytes")
        /\ last.out.bytes = last.from

\* at most one threshold pair, then at most one alarm pair whose value is 0 or 1
Canonical(b) ==
    \/ b = <<>>
    \/ Len(b) = 2 /\ b[1] = 0
    \/ Len(b) = 2 /\ b[1] = 1 /\ b[2] \in {0, 1}
    \/ Len(b) = 4 /\ b[1] = 0 /\ b[3] = 1 /\ b[4] \in {0, 1}

\* C8 amended: for every byte sequence b of at most 4 bytes that
\* decodeDownlink accepts and that has no repeated tag, the threshold pair
\* before the alarm pair and an alarm value of 0 or 1, encodeDownlink on the
\* decoded data returns b; for every accepted b it returns bytes with no
\* error.
C8_CanonicalDecodeEncode ==
    (last.fn = "encodeDownlink" /\ Has(last, "from")) =>
        /\ Returned(last)
        /\ last.out.errors = <<>>
        /\ Has(last.out, "bytes")
        /\ Canonical(last.from) => last.out.bytes = last.from

C8_Witness ==
    /\ Ret
    /\ last.fn = "encodeDownlink"
    /\ Has(last, "from")
    /\ last.from = <<0, 5, 1, 1>>
    /\ last.out.bytes = <<0, 5, 1, 1>>

-----------------------------------------------------------------------------
(* C9 - no call depends on an earlier one.                                 *)

\* C9: whatever calls came before it in the process, a call gives what the
\* same call gives as the first call of a fresh process; so two calls of
\* one function on one input agree, and nothing an earlier call wrote
\* (the globals i and j) reaches a later outcome.
C9_CallIndependent ==
    ~Idle => last.out = FreshOutcome(last.fn, last.input)

-----------------------------------------------------------------------------
(* C10 - the sample driver's tag stream.                                   *)

\* a payload made only of the tags 0x00, 0x01 and 0x02, each followed by
\* its complete field (2, 2 and 1 bytes)
RECURSIVE IsTagStream(_)
IsTagStream(b) ==
    IF b = <<>> THEN TRUE
    ELSE IF b[1] \in {0, 1} THEN Len(b) >= 3 /\ IsTagStream(SubSeq(b, 4, Len(b)))
    ELSE IF b[1] = 2 THEN Len(b) >= 2 /\ IsTagStream(SubSeq(b, 3, Len(b)))
    ELSE FALSE

\* the fields such a payload holds, later ones replacing earlier ones
RECURSIVE StreamFields(_, _)
StreamFields(b, acc) ==
    IF b = <<>> THEN acc
    ELSE IF b[1] = 0
         THEN StreamFields(SubSeq(b, 4, Len(b)), Put(acc, "temperature", Div100(Int16BE(b, 1))))
    ELSE IF b[1] = 1
         THEN StreamFields(SubSeq(b, 4, Len(b)), Put(acc, "humidity", Div100(Int16BE(b, 1))))
    ELSE StreamFields(SubSeq(b, 3, Len(b)), Put(acc, "pulseCounter", Int8(b, 1)))

\* C10: on a payload of at most 30 bytes made only of recognized tags with
\* complete fields the sample driver's decodeUplink returns no errors and
\* the accumulated fields: temperature and humidity as the signed 16-bit
\* value over 100, pulseCounter as the signed 8-bit value.
C10_TagStream ==
    (last.fn = "sample.decodeUplink" /\ Len(last.input) <= 30 /\ IsTagStream(last.input)) =>
        /\ Returned(last)
        /\ last.out.errors = <<>>
        /\ Has(last.out, "data")
        /\ \A k \in DOMAIN StreamFields(last.input, EmptyObj) :
              /\ Has(last.out.data, k)
              /\ last.out.data[k] = StreamFields(last.input, EmptyObj)[k]

-----------------------------------------------------------------------------
(* The reads of a decoder, in program order: which offsets of the payload  *)
(* a call reads as a tag (the operand of a switch) and which as the value  *)
(* of a field, up to the point where the call returns or throws.           *)

Rd(kind, name, lo, hi) == [kind |-> kind, name |-> name, lo |-> lo, hi |-> hi]

\* sample driver, second loop: the tag at i, the field behind it
RECURSIVE TagLoopReads(_, _)
TagLoopReads(raw, i) ==
    LET n   == Len(raw)
        tag == Rd("tag", "id", i, i)
    IN  IF ~(i < n) THEN <<>>
        ELSE CASE raw[i + 1] = 0 ->
                    IF n < i + 3 THEN <<tag>>
                    ELSE <<tag, Rd("field", "temperature", i + 1, i + 2)>>
                         \o TagLoopReads(raw, i + 3)
               [] raw[i + 1] = 1 ->
                    IF n < i + 3 THEN <<tag>>
                    ELSE <<tag, Rd("field", "humidity", i + 1, i + 2)>>
                         \o TagLoopReads(raw, i + 3)
               [] raw[i + 1] = 2 ->
                    <<tag, Rd("field", "pulseCounter", i + 1, i + 1)>>
                    \o (IF i + 1 < n THEN TagLoopReads(raw, i + 2) ELSE <<>>)
               [] OTHER -> <<tag>>

\* sample driver, first loop: the tag at i, the field from i on (raw[i] or
\* rawHEX[i] is its first element), then i += width and i++
RECURSIVE StatusLoopReads(_, _)
StatusLoopReads(raw, i) ==
    LET n   == Len(raw)
        tag == Rd("tag", "id", i, i)
    IN  IF ~(i < n) THEN TagLoopReads(raw, 0)
        ELSE CASE raw[i + 1] = 0 ->
                    IF n < i + 4 THEN <<tag>>
                    ELSE <<tag, Rd("field", "device_id", i, i + 3)>>
                         \o StatusLoopReads(raw, i + 5)
               [] raw[i + 1] = 1 ->
                    IF n < i + 1 THEN <<tag>>
                    ELSE <<tag, Rd("field", "port", i, i)>> \o StatusLoopReads(raw, i + 2)
               [] raw[i + 1] = 2 ->
                    IF n < i + 4 THEN <<tag>>
                    ELSE <<tag, Rd("field", "device_date_time", i, i + 3)>>
                         \o StatusLoopReads(raw, i + 5)
               [] raw[i + 1] = 3 ->
                    IF n < i + 3 THEN <<tag>>
                    ELSE <<tag, Rd("field", "firmware", i, i + 2)>>
                         \o StatusLoopReads(raw, i + 4)
               [] raw[i + 1] = 4 -> <<tag, Rd("field", "name", i, n - 1)>>
               [] OTHER -> <<tag>>

\* raw[0] = 17 stores element 0 and does not read it
SampleReads(bytes) ==
    IF Len(bytes) > MaxUplinkLen THEN <<>>
    ELSE StatusLoopReads(DiscriminatorTest(bytes).raw, 1)

\* decodeDownlink: the tag at i, the value at i + 1, i += 2
RECURSIVE DownlinkLoopReads(_, _)
DownlinkLoopReads(raw, i) ==
    LET n   == Len(raw)
        tag == Rd("tag", "id", i, i)
    IN  IF ~(i < n) THEN <<>>
        ELSE IF raw[i + 1] \in {0, 1}
             THEN IF n < i + 2 THEN <<tag>>
                  ELSE <<tag, Rd("field",
                                 IF raw[i + 1] = 0 THEN "pulseCounterThreshold" ELSE "alarm",
                                 i + 1, i + 1)>>
                       \o DownlinkLoopReads(raw, i + 2)
             ELSE <<tag>>

DownlinkReads(bytes) ==
    IF Len(bytes) > MaxDownlinkLen THEN <<>> ELSE DownlinkLoopReads(bytes, 0)

\* the Data frame header of both Electrex drivers, then the switch on
\* element 7, which the header has already read as slave_id
DataHeaderReads ==
    <<Rd("field", "tcp_ip", 1, 4), Rd("field", "tcp_port", 5, 6),
      Rd("field", "slave_id", 7, 7), Rd("field", "modbus", 8, 8),
      Rd("field", "start_value", 9, 10), Rd("field", "registers_quiered", 11, 12),
      Rd("field", "data_bytes", 13, 13), Rd("tag", "sub-type", 7, 7)>>

CounterReads(sub) ==
    CASE sub = GasMeter -> <<Rd("field", "c1", 14, 17)>>
      [] sub = WaterMeter -> <<Rd("field", "c1", 14, 17), Rd("field", "c2", 18, 21)>>
      [] sub = EnergyMeter -> <<Rd("field", "ea", 14, 17), Rd("field", "er", 18, 21)>>
      [] sub = ImportedEnergy ->
           <<Rd("field", "ea_imp", 14, 17), Rd("field", "er_ind_imp", 18, 21),
             Rd("field", "er_cap_imp", 22, 25), Rd("field", "es_imp", 26, 29)>>
      [] OTHER -> <<>>

\* the Status frame: four fixed fields, then the name from element 13 on
\* (element 13 is read even when the frame ends before it)
StatusReads(last13) ==
    <<Rd("field", "device_id", 1, 4), Rd("field", "port", 5, 5),
      Rd("field", "device_date_time", 6, 9), Rd("field", "firmware", 10, 12),
      Rd("field", "name", 13, IF last13 > 13 THEN last13 ELSE 13)>>

Part000Reads(bytes) ==
    LET n    == Len(bytes)
        head == <<Rd("tag", "frame type", 0, 0)>>
    IN  IF n > MaxUplinkLen THEN <<>>
        ELSE CASE n > 0 /\ bytes[1] = StatusTag ->
                    IF n < StatusMinLen THEN head ELSE head \o StatusReads(n - 1)
               [] n > 0 /\ bytes[1] = DataTag ->
                    IF n < DataMinLen THEN head
                    ELSE head \o DataHeaderReads \o CounterReads(bytes[8])
               [] OTHER -> head

\* part_001 reads its tags from rawHEX and its lengths from rawHEX.byteLength
Part001Reads(bytes) ==
    LET hex  == rawHEXOf(bytes)
        head == <<Rd("tag", "frame type", 0, 0)>>
    IN  IF Len(bytes) > MaxUplinkLen THEN <<>>
        ELSE CASE Len(hex) > 0 /\ hex[1] = StatusTag ->
                    IF Len(hex) < HexStatusMinLen THEN head
                    ELSE head \o StatusReads(Len(hex) - 1)
               [] Len(hex) > 0 /\ hex[1] = DataTag ->
                    IF Len(hex) < DataMinLen THEN head
                    ELSE head \o DataHeaderReads \o CounterReads(hex[8])
               [] OTHER -> head

Reads(fn, input) ==
    CASE fn = "sample.decodeUplink" -> SampleReads(input)
      [] fn = "part_000.decodeUplink" -> Part000Reads(input)
      [] fn = "part_001.decodeUplink" -> Part001Reads(input)
      [] fn = "decodeDownlink" -> DownlinkReads(input)
      [] OTHER -> <<>>

DecodeFns == UplinkFns \cup {"decodeDownlink"}

FieldReads(t) == {t[k] : k \in {m \in DOMAIN t : t[m].kind = "field"}}

\* the length a part_000 frame needs: 13 for Status, 14 for Data, and the
\* counters of the sub-type behind the 14 bytes of a Data header
NeededLen(b) ==
    IF b[1] = StatusTag THEN StatusMinLen
    ELSE IF Len(b) >= DataMinLen /\ b[8] \in SubTypes
         THEN DataMinLen + 4 * CounterCount(b[8])
         ELSE DataMinLen

Framed(b) == Len(b) > 0 /\ Len(b) <= MaxUplinkLen /\ b[1] \in {StatusTag, DataTag}

TruncatedFrame(b) == Framed(b) /\ Len(b) < NeededLen(b)

ExactFrame(b) ==
    /\ Framed(b)
    /\ Len(b) = NeededLen(b)
    /\ b[1] = DataTag => b[8] \in SubTypes

\* a downlink of known tags at the even offsets that ends on a tag
OddTrailing(b) ==
    /\ Len(b) <= MaxDownlinkLen
    /\ Len(b) % 2 = 1
    /\ \A k \in 1..Len(b) : k % 2 = 1 => b[k] \in {0, 1}

Refused(c) == Returned(c) /\ c.out.errors # <<>> /\ ~Has(c.out, "data")

Succeeded(c) == Returned(c) /\ c.out.errors = <<>> /\ Has(c.out, "data")

(* C11: no decode returns field data computed from a byte position at or   *)
(* beyond the length of its payload. Every field read of a call that       *)
(* returns data lies inside the payload; a part_000 frame shorter than its *)
(* type needs (Status 13, Data 14, Data 14 + 4 per counter of its          *)
(* sub-type) and a downlink ending on a tag without its value are refused  *)
(* with an error and no data; a part_000 frame of exactly the needed       *)
(* length succeeds.                                                        *)
C11_NoReadPastEnd ==
    (~Idle /\ last.fn \in DecodeFns) =>
        /\ (Returned(last) /\ Has(last.out, "data")) =>
              \A r \in FieldReads(Reads(last.fn, last.input)) : r.hi < Len(last.input)
        /\ (last.fn = "part_000.decodeUplink" /\ TruncatedFrame(last.input)) => Refused(last)
        /\ (last.fn = "part_000.decodeUplink" /\ ExactFrame(last.input)) => Succeeded(last)
        /\ (last.fn = "decodeDownlink" /\ OddTrailing(last.input)) => Refused(last)

\* every read starts on the offset right behind the read before it
Sequential(t) ==
    /\ \A k \in DOMAIN t : t[k].lo <= t[k].hi
    /\ \A k \in 1..(Len(t) - 1) : t[k + 1].lo = t[k].hi + 1

(* C12: field extraction in every uplink decoder is strictly sequential    *)
(* and offset-monotonic. In the reads of a decodeUplink call, taken in     *)
(* program order, each read (a one-byte tag or the bytes of a field)       *)
(* starts on the offset right after the last offset of the read before     *)
(* it: the cursor never moves backward, no payload byte is read twice      *)
(* (by two fields, or as a tag and as part of a field) and none is         *)
(* skipped between two reads.                                              *)
C12_SequentialReads ==
    (~Idle /\ last.fn \in UplinkFns) => Sequential(Reads(last.fn, last.input))

=============================================================================
